---- MODULE Spec2Model ----
(***************************************************************************)
(* Model of the two manifest generators of jwt-ui:                         *)
(*   script "A" = deployment/homebrew/packager.py                          *)
(*   script "B" = deployment/scoop/packager.py                             *)
(* A text (a Python str, a file's contents, a command-line argument) is a  *)
(* sequence of one-character strings.  An invocation of a script is a      *)
(* process p; the file system is shared by all invocations.                *)
(***************************************************************************)
EXTENDS Integers, Sequences, FiniteSets, TLC

\* ------------------------------------------------------------- bounds
\* Longest template, counted in pieces of TemplatePieces.
MaxPieces == 3
\* Longest enumerated command-line argument, in characters.
MaxArgLen == 3

\* ------------------------------------------------------------- characters
Lower == {"a","b","c","d","e","f","g","h","i","j","k","l","m",
          "n","o","p","q","r","s","t","u","v","w","x","y","z"}
Upper == {"A","B","C","D","E","F","G","H","I","J","K","L","M",
          "N","O","P","Q","R","S","T","U","V","W","X","Y","Z"}
Digit == {"0","1","2","3","4","5","6","7","8","9"}

\* string.Template.delimiter
delimiter == "$"
\* string.Template.idpattern, (?a:[_a-z][_a-z0-9]*) under re.IGNORECASE
IdStart == Lower \cup Upper \cup {"_"}
IdChar == IdStart \cup Digit
\* Whitespace that str.strip() removes when called without an argument: the
\* characters of it that a string literal here can hold (it also removes \v,
\* \x1c-\x1f and the Unicode spaces, none of which the enumerated arguments use).
Whitespace == {" ", "\t", "\n", "\r", "\f"}

\* The keyword names handed to safe_substitute.
kw_version == <<"v","e","r","s","i","o","n">>
kw_hash_mac == <<"h","a","s","h","_","m","a","c">>
kw_hash_mac_arm == <<"h","a","s","h","_","m","a","c","_","a","r","m">>
kw_hash_linux == <<"h","a","s","h","_","l","i","n","u","x">>
kw_version64 == <<"v","e","r","s","i","o","n","6","4">>
kw_hash_64 == <<"h","a","s","h","_","6","4">>

\* ------------------------------------------------------------- str methods
RECURSIVE replace(_, _, _)
\* str.replace(old, new) for a one-character old: every occurrence is replaced.
replace(s, old, new) ==
    IF s = <<>> THEN <<>>
    ELSE (IF Head(s) = old THEN new ELSE <<Head(s)>>) \o replace(Tail(s), old, new)

RECURSIVE lstrip(_)
lstrip(s) ==
    IF s # <<>> /\ Head(s) \in Whitespace THEN lstrip(Tail(s)) ELSE s

RECURSIVE rstrip(_)
rstrip(s) ==
    IF s # <<>> /\ s[Len(s)] \in Whitespace
    THEN rstrip(SubSeq(s, 1, Len(s) - 1)) ELSE s

\* strip() mistaken for lstrip().
strip_leading_only(s) == lstrip(s)

\* str.strip(): leading and trailing whitespace removed.
strip(s) == rstrip(lstrip(s))

\* ------------------------------------------------------------- string.Template
RECURSIVE IdRun(_, _)
\* Number of IdChar characters of t from position i on (the greedy [_a-z0-9]*).
IdRun(t, i) ==
    IF i <= Len(t) /\ t[i] \in IdChar THEN 1 + IdRun(t, i + 1) ELSE 0

\* Length of the identifier the idpattern matches at position i of t, 0 if none.
IdentLen(t, i) ==
    IF i <= Len(t) /\ t[i] \in IdStart THEN 1 + IdRun(t, i + 1) ELSE 0

\* The closing brace left out of the length of the match.
BracedLen_short(t, i) ==
    IF i <= Len(t) /\ t[i] = "{"
    THEN LET n == IdentLen(t, i + 1)
         IN IF n > 0 /\ i + n + 1 <= Len(t) /\ t[i + n + 1] = "}" THEN n + 1 ELSE 0
    ELSE 0

\* Length of the braced alternative {identifier} at position i of t, 0 if none.
BracedLen(t, i) ==
    IF i <= Len(t) /\ t[i] = "{"
    THEN LET n == IdentLen(t, i + 1)
         IN IF n > 0 /\ i + n + 1 <= Len(t) /\ t[i + n + 1] = "}" THEN n + 2 ELSE 0
    ELSE 0

\* substitute() in place of safe_substitute(): no fallback to the matched text.
Convert_no_fallback(mapping, name, matched) ==
    IF name \in DOMAIN mapping THEN mapping[name] ELSE <<>>

\* convert() of safe_substitute for a named or braced match: the mapping's value,
\* or the matched text itself on KeyError.
Convert(mapping, name, matched) ==
    IF name \in DOMAIN mapping THEN mapping[name] ELSE matched

RECURSIVE Sub(_, _, _)
\* pattern.sub(convert, template) from position i: one pass, left to right, over
\* non-overlapping matches of  $$ | $identifier | ${identifier} | $ ; what convert
\* returns is not scanned again.
Sub(t, i, mapping) ==
    IF i > Len(t) THEN <<>>
    ELSE IF t[i] # delimiter THEN <<t[i]>> \o Sub(t, i + 1, mapping)
    ELSE IF i < Len(t) /\ t[i + 1] = delimiter
         THEN <<delimiter>> \o Sub(t, i + 2, mapping)
    ELSE IF IdentLen(t, i + 1) > 0
         THEN LET n == IdentLen(t, i + 1)
              IN Convert(mapping, SubSeq(t, i + 1, i + n), SubSeq(t, i, i + n))
                     \o Sub(t, i + n + 1, mapping)
    ELSE IF BracedLen(t, i + 1) > 0
         THEN LET n == BracedLen(t, i + 1)
              IN Convert(mapping, SubSeq(t, i + 2, i + n - 1), SubSeq(t, i, i + n))
                     \o Sub(t, i + n + 1, mapping)
    ELSE <<delimiter>> \o Sub(t, i + 1, mapping)

\* The result substituted once more.
safe_substitute_twice(template, mapping) ==
    Sub(Sub(template, 1, mapping), 1, mapping)

\* Template(template).safe_substitute(**mapping)
safe_substitute(template, mapping) == Sub(template, 1, mapping)

\* ------------------------------------------------------------- file system
\* The paths the invocations are given.
P1 == <<"f","1">>
P2 == <<"f","2">>
P3 == <<"f","3">>
Paths == {P1, P2, P3}

\* files[path] when no file exists at the path.
NoFile == <<"<no file>">>
\* A byte the text codec cannot decode; read() raises on a file that holds one.
InvalidByte == "<0xff>"

\* open(path, "r") succeeds: the file exists and may be read.
CanOpenRead(fs, denied, path) == fs[path] # NoFile /\ path \notin denied
\* file.read() succeeds: the contents decode.
CanDecode(content) == \A i \in 1..Len(content) : content[i] # InvalidByte

\* The contents of a file after writing s at position pos.
WriteAt(content, pos, s) ==
    SubSeq(content, 1, pos) \o s \o SubSeq(content, pos + Len(s) + 1, Len(content))

\* ------------------------------------------------------------- state
VARIABLES
    procs,                 \* the invocations the build pipeline makes
    script,                \* script[p]: "A" (homebrew) or "B" (scoop)
    args,                  \* args[p]: sys.argv[1:], so args[p][i] is sys.argv[i]
    pc,                    \* pc[p]: where invocation p stands
    error,                 \* error[p]: the uncaught exception, "" if none
    version,               \* script A, line 6
    version64,             \* script B, line 6
    template_file_path,
    generated_file_path,
    hash_mac,
    hash_mac_arm,
    hash_linux,
    hash_64,
    template,              \* the text Template() was built from
    substitute,
    offset,                \* position of generated_file once it is open
    stdout,                \* stdout[p]: what p has printed, in order
    files,                 \* files[path]: contents, or NoFile
    unreadable,            \* paths that open(path, "r") is refused on
    unwritable,            \* paths that open(path, "w") fails on
    files0,                \* history: the file system before any invocation ran
    trace,                 \* history: trace[p], the steps p has taken, in order
    touched,               \* history: touched[p], the paths p created, truncated or wrote
    after,                 \* history: after[p], the invocations that had ended when p began
    left                   \* history: left[p], the output file as p left it on finishing

locals == <<version, version64, template_file_path, generated_file_path,
            hash_mac, hash_mac_arm, hash_linux, hash_64>>
given == <<procs, script, args, unreadable, unwritable, files0>>
vars == <<procs, script, args, pc, error, version, version64, template_file_path,
          generated_file_path, hash_mac, hash_mac_arm, hash_linux, hash_64,
          template, substitute, offset, stdout, files, unreadable, unwritable,
          files0, trace, touched, after, left>>

\* The highest index of sys.argv the script reads.
Required(s) == IF s = "A" THEN 6 ELSE 4

Ended(p) == pc[p] \in {"done", "failed"}

\* The keyword arguments of the safe_substitute call.
SubstitutionMap(p) ==
    IF script[p] = "A"
    THEN (kw_version :> version[p]) @@ (kw_hash_mac :> hash_mac[p])
         @@ (kw_hash_mac_arm :> hash_mac_arm[p]) @@ (kw_hash_linux :> hash_linux[p])
    ELSE (kw_version64 :> version64[p]) @@ (kw_hash_64 :> hash_64[p])

Line(label, value) == [label |-> label, value |-> value]

\* The prints that follow the argument reads.
Summary(p) ==
    IF script[p] = "A"
    THEN << Line("Generating formula", <<>>),
            Line("     VERSION: ", version[p]),
            Line("     TEMPLATE PATH: ", template_file_path[p]),
            Line("     SAVING AT: ", generated_file_path[p]),
            Line("     MAC HASH: ", hash_mac[p]),
            Line("     MAC ARM HASH: ", hash_mac_arm[p]),
            Line("     LINUX HASH: ", hash_linux[p]) >>
    ELSE << Line("Generating formula", <<>>),
            Line("     VERSION: ", version64[p]),
            Line("     TEMPLATE PATH: ", template_file_path[p]),
            Line("     SAVING AT: ", generated_file_path[p]),
            Line("     HASH: ", hash_64[p]) >>

SeparatorTop ==
    Line("\n================== Generated package file ==================\n", <<>>)
SeparatorBottom ==
    Line("\n============================================================\n", <<>>)

\* The three prints inside the with block.
Generated(p) == << SeparatorTop, Line("", substitute[p]), SeparatorBottom >>

Step(p, to, event) ==
    /\ pc' = [pc EXCEPT ![p] = to]
    /\ trace' = [trace EXCEPT ![p] = Append(@, event)]
    /\ after' = IF pc[p] = "start"
                THEN [after EXCEPT ![p] = {q \in procs : Ended(q)}] ELSE after

Raise(p, exception, event) ==
    /\ Step(p, "failed", event)
    /\ error' = [error EXCEPT ![p] = exception]

\* ------------------------------------------------------------- the steps of a run
\* Lines 5-13 of script A, 5-11 of script B, every index in range.
ReadArguments(p) ==
    /\ pc[p] = "start"
    /\ Len(args[p]) >= Required(script[p])
    /\ IF script[p] = "A"
       THEN /\ version' = [version EXCEPT ![p] = args[p][1]]
            /\ hash_mac' = [hash_mac EXCEPT ![p] = strip(args[p][4])]
            /\ hash_mac_arm' = [hash_mac_arm EXCEPT ![p] = strip(args[p][5])]
            /\ hash_linux' = [hash_linux EXCEPT ![p] = strip(args[p][6])]
            /\ UNCHANGED <<version64, hash_64>>
       ELSE /\ version64' = [version64 EXCEPT ![p] = replace(args[p][1], "v", <<>>)]
            /\ hash_64' = [hash_64 EXCEPT ![p] = strip(args[p][4])]
            /\ UNCHANGED <<version, hash_mac, hash_mac_arm, hash_linux>>
    /\ template_file_path' = [template_file_path EXCEPT ![p] = args[p][2]]
    /\ generated_file_path' = [generated_file_path EXCEPT ![p] = args[p][3]]
    /\ Step(p, "args_read", "ReadArguments")
    /\ UNCHANGED <<given, error, template, substitute, offset, stdout, files,
                   touched, left>>

\* The hash arguments read only inside the with blocks: the output is open by then.
ArgsIndexError_late(p) ==
    /\ pc[p] = "start"
    /\ Len(args[p]) < Required(script[p])
    /\ Raise(p, "IndexError", "ArgsIndexError")
    /\ files' = IF Len(args[p]) >= 3 THEN [files EXCEPT ![args[p][3]] = <<>>] ELSE files
    /\ UNCHANGED <<given, locals, template, substitute, offset, stdout, touched, left>>

\* The same lines when sys.argv is too short: IndexError, uncaught.
ArgsIndexError(p) ==
    /\ pc[p] = "start"
    /\ Len(args[p]) < Required(script[p])
    /\ Raise(p, "IndexError", "ArgsIndexError")
    /\ UNCHANGED <<given, locals, template, substitute, offset, stdout, files,
                   touched, left>>

\* Lines 15-21 of script A, 13-17 of script B.
PrintSummary(p) ==
    /\ pc[p] = "args_read"
    /\ stdout' = [stdout EXCEPT ![p] = @ \o Summary(p)]
    /\ Step(p, "summarised", "PrintSummary")
    /\ UNCHANGED <<given, locals, error, template, substitute, offset, files,
                   touched, left>>

\* with open(template_file_path, "r") as template_file:
OpenTemplate(p) ==
    /\ pc[p] = "summarised"
    /\ CanOpenRead(files, unreadable, template_file_path[p])
    /\ Step(p, "template_open", "OpenTemplate")
    /\ UNCHANGED <<given, locals, error, template, substitute, offset, stdout,
                   files, touched, left>>

\* The with blocks nested the other way round: the output is open, and empty,
\* by the time the template turns out to be missing.
TemplateOpenError_output_first(p) ==
    /\ pc[p] = "summarised"
    /\ ~CanOpenRead(files, unreadable, template_file_path[p])
    /\ Raise(p, IF files[template_file_path[p]] = NoFile
                THEN "FileNotFoundError" ELSE "PermissionError", "TemplateOpenError")
    /\ files' = [files EXCEPT ![generated_file_path[p]] = <<>>]
    /\ touched' = [touched EXCEPT ![p] = @ \cup {generated_file_path[p]}]
    /\ UNCHANGED <<given, locals, template, substitute, offset, stdout, left>>

\* The same open when the file is missing or may not be read.
TemplateOpenError(p) ==
    /\ pc[p] = "summarised"
    /\ ~CanOpenRead(files, unreadable, template_file_path[p])
    /\ Raise(p, IF files[template_file_path[p]] = NoFile
                THEN "FileNotFoundError" ELSE "PermissionError", "TemplateOpenError")
    /\ UNCHANGED <<given, locals, template, substitute, offset, stdout, files,
                   touched, left>>

\* template = Template(template_file.read())
ReadTemplate(p) ==
    /\ pc[p] = "template_open"
    /\ CanDecode(files[template_file_path[p]])
    /\ template' = [template EXCEPT ![p] = files[template_file_path[p]]]
    /\ Step(p, "template_read", "ReadTemplate")
    /\ UNCHANGED <<given, locals, error, substitute, offset, stdout, files,
                   touched, left>>

\* The same read when the contents do not decode.
TemplateReadError(p) ==
    /\ pc[p] = "template_open"
    /\ ~CanDecode(files[template_file_path[p]])
    /\ Raise(p, "UnicodeDecodeError", "TemplateReadError")
    /\ UNCHANGED <<given, locals, template, substitute, offset, stdout, files,
                   touched, left>>

\* substitute = template.safe_substitute(...)
Render(p) ==
    /\ pc[p] = "template_read"
    /\ substitute' = [substitute EXCEPT
                         ![p] = safe_substitute(template[p], SubstitutionMap(p))]
    /\ Step(p, "rendered", "Render")
    /\ UNCHANGED <<given, locals, error, template, offset, stdout, files,
                   touched, left>>

\* The separator, the rendered text, the separator.
PrintGenerated(p) ==
    /\ pc[p] = "rendered"
    /\ stdout' = [stdout EXCEPT ![p] = @ \o Generated(p)]
    /\ Step(p, "printed", "PrintGenerated")
    /\ UNCHANGED <<given, locals, error, template, substitute, offset, files,
                   touched, left>>

\* The output opened without waiting for the prints.
OpenOutput_before_print(p) ==
    /\ pc[p] \in {"rendered", "printed"}
    /\ generated_file_path[p] \notin unwritable
    /\ files' = [files EXCEPT ![generated_file_path[p]] = <<>>]
    /\ offset' = [offset EXCEPT ![p] = 0]
    /\ touched' = [touched EXCEPT ![p] = @ \cup {generated_file_path[p]}]
    /\ Step(p, "output_open", "OpenOutput")
    /\ UNCHANGED <<given, locals, error, template, substitute, stdout, left>>

\* Mode "a" in place of "w": nothing is truncated, the position is the end.
OpenOutput_append(p) ==
    /\ pc[p] = "printed"
    /\ generated_file_path[p] \notin unwritable
    /\ files' = [files EXCEPT ![generated_file_path[p]] = IF @ = NoFile THEN <<>> ELSE @]
    /\ offset' = [offset EXCEPT ![p] = Len(files'[generated_file_path[p]])]
    /\ touched' = [touched EXCEPT ![p] = @ \cup {generated_file_path[p]}]
    /\ Step(p, "output_open", "OpenOutput")
    /\ UNCHANGED <<given, locals, error, template, substitute, stdout, left>>

\* with open(generated_file_path, "w") as generated_file: the file is created,
\* or truncated, and the position is 0.
OpenOutput(p) ==
    /\ pc[p] = "printed"
    /\ generated_file_path[p] \notin unwritable
    /\ files' = [files EXCEPT ![generated_file_path[p]] = <<>>]
    /\ offset' = [offset EXCEPT ![p] = 0]
    /\ touched' = [touched EXCEPT ![p] = @ \cup {generated_file_path[p]}]
    /\ Step(p, "output_open", "OpenOutput")
    /\ UNCHANGED <<given, locals, error, template, substitute, stdout, left>>

\* The same open when the path cannot be written.
OutputOpenError(p) ==
    /\ pc[p] = "printed"
    /\ generated_file_path[p] \in unwritable
    /\ Raise(p, "OSError", "OutputOpenError")
    /\ UNCHANGED <<given, locals, template, substitute, offset, stdout, files,
                   touched, left>>

\* The text also kept in a scratch file of fixed name, shared by every run.
WriteOutput_shared_scratch(p) ==
    /\ pc[p] = "output_open"
    /\ files' = [files EXCEPT ![P3] = substitute[p],
                              ![generated_file_path[p]] =
                                  WriteAt(files[generated_file_path[p]], offset[p],
                                          substitute[p])]
    /\ left' = [left EXCEPT ![p] = files'[generated_file_path[p]]]
    /\ touched' = [touched EXCEPT ![p] = @ \cup {generated_file_path[p], P3}]
    /\ Step(p, "done", "WriteOutput")
    /\ UNCHANGED <<given, locals, error, template, substitute, offset, stdout>>

\* generated_file.write(substitute), flushed when the with blocks close the file.
WriteOutput(p) ==
    /\ pc[p] = "output_open"
    /\ files' = [files EXCEPT ![generated_file_path[p]] =
                                  WriteAt(@, offset[p], substitute[p])]
    /\ left' = [left EXCEPT ![p] = files'[generated_file_path[p]]]
    /\ touched' = [touched EXCEPT ![p] = @ \cup {generated_file_path[p]}]
    /\ Step(p, "done", "WriteOutput")
    /\ UNCHANGED <<given, locals, error, template, substitute, offset, stdout>>

Next ==
    \/ \E p \in procs : ReadArguments(p)
    \/ \E p \in procs : ArgsIndexError(p)
    \/ \E p \in procs : PrintSummary(p)
    \/ \E p \in procs : OpenTemplate(p)
    \/ \E p \in procs : TemplateOpenError(p)
    \/ \E p \in procs : ReadTemplate(p)
    \/ \E p \in procs : TemplateReadError(p)
    \/ \E p \in procs : Render(p)
    \/ \E p \in procs : PrintGenerated(p)
    \/ \E p \in procs : OpenOutput(p)
    \/ \E p \in procs : OutputOpenError(p)
    \/ \E p \in procs : WriteOutput(p)

\* ------------------------------------------------------------- inputs
\* Argument values.
V10 == <<"1", ".", "0">>
AB == <<"a", "b">>
CD == <<"c", "d">>
EF == <<"e", "f">>

RECURSIVE Texts(_, _)
\* Every concatenation of at most n members of pieces.
Texts(pieces, n) ==
    IF n = 0 THEN {<<>>}
    ELSE LET shorter == Texts(pieces, n - 1)
         IN shorter \cup {piece \o t : piece \in pieces, t \in shorter}

\* What the enumerated templates are put together from, per script: the
\* delimiter, braces, the keyword names and parts of them, whole placeholders.
TemplatePieces(s) ==
    IF s = "A"
    THEN { <<"$">>, <<"{">>, <<"}">>, kw_version, kw_hash_mac, <<"_","a","r","m">>,
           <<"$","{">> \o kw_version \o <<"}">> }
    ELSE { <<"$">>, <<"{">>, <<"}">>, kw_version, <<"6","4">>, kw_hash_64,
           <<"$","{">> \o kw_version64 \o <<"}">> }

Templates(s) == Texts(TemplatePieces(s), MaxPieces)

\* Argument values the templates are rendered with: plain ones, ones that hold
\* placeholder syntax, ones that continue an identifier.
RenderArgs(s) ==
    IF s = "A"
    THEN { <<V10, P1, P2, AB, CD, EF>>,
           <<<<"$","{">> \o kw_hash_mac \o <<"}">>, P1, P2, <<"$">>, CD, <<"{">>>>,
           <<<<"_","a","r","m">>, P1, P2, AB, CD, EF>> }
    ELSE { <<<<"v">> \o V10, P1, P2, AB>>,
           <<<<"$","{">> \o kw_hash_64 \o <<"}">>, P1, P2, <<"6","4">>>>,
           <<<<"6","4">>, P1, P2, <<"$">>>> }

\* Every hash argument over some whitespace and a letter, every version
\* argument over "v" and a digit.
HashArgs == Texts({<<" ">>, <<"\n">>, <<"a">>}, MaxArgLen)
VersionArgs == Texts({<<"v">>, <<"1">>}, MaxArgLen)

\* A template that names every keyword of both scripts.
AllKeys ==
    <<"$","{">> \o kw_version \o <<"}", " ", "$">> \o kw_hash_mac \o <<" ", "$">>
    \o kw_hash_mac_arm \o <<" ", "$","{">> \o kw_hash_linux \o <<"}", " ", "$">>
    \o kw_version64 \o <<" ", "$","{">> \o kw_hash_64 \o <<"}", "$", "$">>

\* Some other templates, and what an output path may hold beforehand.
Small1 == <<"$","{">> \o kw_version \o <<"}", "$">> \o kw_version64 \o <<"$", "$">>
Small2 == <<"$">> \o kw_hash_mac \o <<"$","{">> \o kw_hash_64 \o <<"}", "$", "x">>
Old == <<"o","l","d"," ","m","a","n","i","f","e","s","t">>
Undecodable == <<"x", InvalidByte>>

FullArgs(s) ==
    IF s = "A" THEN <<V10, P1, P2, AB, CD, EF, <<"x">>>>
    ELSE <<<<"v">> \o V10, P1, P2, AB, CD>>

Invocation(s, a) == [script |-> s, args |-> a]
OneFile(path, content) == [q \in Paths |-> IF q = path THEN content ELSE NoFile]

\* The state before any of the invocations inv has taken a step, on the file
\* system fs with nr unreadable and nw unwritable.
Start(fs, nr, nw, inv) ==
    /\ procs = DOMAIN inv
    /\ script = [p \in DOMAIN inv |-> inv[p].script]
    /\ args = [p \in DOMAIN inv |-> inv[p].args]
    /\ files = fs
    /\ files0 = fs
    /\ unreadable = nr
    /\ unwritable = nw
    /\ pc = [p \in DOMAIN inv |-> "start"]
    /\ error = [p \in DOMAIN inv |-> ""]
    /\ version = [p \in DOMAIN inv |-> <<>>]
    /\ version64 = [p \in DOMAIN inv |-> <<>>]
    /\ template_file_path = [p \in DOMAIN inv |-> <<>>]
    /\ generated_file_path = [p \in DOMAIN inv |-> <<>>]
    /\ hash_mac = [p \in DOMAIN inv |-> <<>>]
    /\ hash_mac_arm = [p \in DOMAIN inv |-> <<>>]
    /\ hash_linux = [p \in DOMAIN inv |-> <<>>]
    /\ hash_64 = [p \in DOMAIN inv |-> <<>>]
    /\ template = [p \in DOMAIN inv |-> <<>>]
    /\ substitute = [p \in DOMAIN inv |-> <<>>]
    /\ offset = [p \in DOMAIN inv |-> 0]
    /\ stdout = [p \in DOMAIN inv |-> <<>>]
    /\ trace = [p \in DOMAIN inv |-> <<>>]
    /\ touched = [p \in DOMAIN inv |-> {}]
    /\ after = [p \in DOMAIN inv |-> {}]
    /\ left = [p \in DOMAIN inv |-> NoFile]

\* One invocation per script, template and value set.
InitRender ==
    \E s \in {"A", "B"} : \E t \in Templates(s), a \in RenderArgs(s) :
        Start(OneFile(P1, t), {}, {}, 1 :> Invocation(s, a))

\* One invocation per choice of hash arguments (script A) and of version and
\* hash argument (script B).
InitArguments ==
    \/ \E h1 \in HashArgs, h2 \in {<<" ">> \o CD, <<"\t", "c", " ", "d", "\n">>},
          h3 \in {EF \o <<"\r", "\f">>, <<>>} :
          Start(OneFile(P1, AllKeys), {}, {},
                1 :> Invocation("A", <<V10, P1, P2, h1, h2, h3>>))
    \/ \E v \in VersionArgs, h \in HashArgs :
          Start(OneFile(P1, AllKeys), {}, {}, 1 :> Invocation("B", <<v, P1, P2, h>>))

\* One invocation per number of arguments, from none to one too many.
InitArgumentCount ==
    \E s \in {"A", "B"} : \E n \in 0..Len(FullArgs(s)), c2 \in {NoFile, Old} :
        Start((P1 :> AllKeys) @@ (P2 :> c2) @@ (P3 :> NoFile), {}, {},
              1 :> Invocation(s, SubSeq(FullArgs(s), 1, n)))

\* One invocation per state of the file system and per pair of paths.
InitFiles ==
    \E c1 \in {NoFile, AllKeys, Undecodable}, c2 \in {NoFile, Old, Small1},
       c3 \in {NoFile, Old}, nr \in {{}, {P1}}, nw \in {{}, {P2}},
       s \in {"A", "B"}, tp \in Paths, gp \in Paths :
        Start((P1 :> c1) @@ (P2 :> c2) @@ (P3 :> c3), nr, nw,
              1 :> Invocation(s, <<(IF s = "A" THEN V10 ELSE <<"v">> \o V10),
                                   tp, gp, AB, CD, EF>>))

\* Two invocations, every pair of scripts and of paths.
InitConcurrent ==
    \E fs \in { (P1 :> Small1) @@ (P2 :> Small2) @@ (P3 :> NoFile),
                (P1 :> Small2) @@ (P2 :> NoFile) @@ (P3 :> Old) },
       s1 \in {"A", "B"}, s2 \in {"A", "B"}, v2 \in {V10, <<"2">>},
       tp1 \in Paths, gp1 \in Paths, tp2 \in Paths, gp2 \in Paths :
        Start(fs, {}, {},
              (1 :> Invocation(s1, <<V10, tp1, gp1, AB, CD, EF>>))
              @@ (2 :> Invocation(s2, <<v2, tp2, gp2, AB, CD, EF>>)))

Init == InitRender \/ InitArguments \/ InitArgumentCount \/ InitFiles \/ InitConcurrent

Spec == Init /\ [][Next]_vars

\* ------------------------------------------------------------- what the claims speak of
\* p has read its arguments (lines 5-13 / 5-11 ran without IndexError).
ArgsRead(p) == pc[p] # "start" /\ error[p] # "IndexError"
\* p has rendered: substitute[p] is set.
Rendered(p) == pc[p] \in {"rendered", "printed", "output_open", "done"}
    \/ (pc[p] = "failed" /\ error[p] = "OSError")

StartsWith(t, i, pat) ==
    i + Len(pat) - 1 <= Len(t) /\ SubSeq(t, i, i + Len(pat) - 1) = pat

\* Length of the placeholder of key that starts at position i of t, 0 if none
\* does: ${key}, or $key not followed by a character that continues the name.
PlaceholderAt(t, i, key) ==
    IF StartsWith(t, i, <<"$", "{">> \o key \o <<"}">>) THEN Len(key) + 3
    ELSE IF /\ StartsWith(t, i, <<"$">> \o key)
            /\ (i + Len(key) + 1 <= Len(t) => t[i + Len(key) + 1] \notin IdChar)
         THEN Len(key) + 1
    ELSE 0

\* The keys of m of which a placeholder starts at position i of t (at most one).
KeysAt(t, i, m) ==
    IF t[i] # "$" THEN {} ELSE {k \in DOMAIN m : PlaceholderAt(t, i, k) > 0}

RECURSIVE Replaced(_, _, _)
\* t from position i on with every occurrence of a placeholder of a key of m
\* replaced by the key's value, everything else as it is.
Replaced(t, i, m) ==
    IF i > Len(t) THEN <<>>
    ELSE LET keys == KeysAt(t, i, m)
         IN IF keys # {}
            THEN LET k == CHOOSE k \in keys : TRUE
                 IN m[k] \o Replaced(t, i + PlaceholderAt(t, i, k), m)
            ELSE <<t[i]>> \o Replaced(t, i + 1, m)

RECURSIVE ReplacedEsc(_, _, _)
\* The same, with each $$ met on the way replaced by one $ (so that the second
\* $ of a $$ does not begin a placeholder).
ReplacedEsc(t, i, m) ==
    IF i > Len(t) THEN <<>>
    ELSE IF StartsWith(t, i, <<"$", "$">>) THEN <<"$">> \o ReplacedEsc(t, i + 2, m)
    ELSE LET keys == KeysAt(t, i, m)
         IN IF keys # {}
            THEN LET k == CHOOSE k \in keys : TRUE
                 IN m[k] \o ReplacedEsc(t, i + PlaceholderAt(t, i, k), m)
            ELSE <<t[i]>> \o ReplacedEsc(t, i + 1, m)

\* No failure comes between reading the template and having rendered it.
RenderNeverRaises(p) ==
    (\E i \in 1..Len(trace[p]) : trace[p][i] = "ReadTemplate")
        => Rendered(p) \/ pc[p] = "template_read"

\* C1 as stated: rendering raises nothing and the rendered text is the template
\* with every occurrence of a recognized placeholder replaced by its value and
\* ALL other text unchanged.
C1_Original ==
    \A p \in procs :
        /\ RenderNeverRaises(p)
        /\ Rendered(p) => substitute[p] = Replaced(template[p], 1, SubstitutionMap(p))

\* C1 (amended): rendering raises nothing and the rendered text is the template
\* with every occurrence of a recognized placeholder replaced by its value and
\* every $$ escape replaced by a single $; all other text, placeholder-like
\* tokens of unknown name included, is unchanged.
C1_Rendering ==
    \A p \in procs :
        /\ RenderNeverRaises(p)
        /\ Rendered(p) => substitute[p] = ReplacedEsc(template[p], 1, SubstitutionMap(p))

\* Reached: a rendered template that held recognized placeholders in both
\* forms, placeholder-like tokens of unknown name and an escape.
C1_Witness ==
    \E p \in procs :
        /\ pc[p] = "done" /\ script[p] = "A"
        /\ template[p] = AllKeys
        /\ args[p] = <<V10, P1, P2, <<" ", "a", "\n">>, <<" ">> \o CD, <<>>>>
        /\ substitute[p] = V10 \o <<" ", "a", " ">> \o CD \o <<" ", " ", "$">>
                           \o kw_version64 \o <<" ", "$", "{">> \o kw_hash_64
                           \o <<"}", "$">>

\* The version argument without its first character if that is "v".
WithoutLeadingV(s) == IF s # <<>> /\ Head(s) = "v" THEN Tail(s) ELSE s

\* C2: script B substitutes for version64 the version argument with a single
\* leading "v" removed and nothing else changed.
C2_LeadingVOnly ==
    \A p \in procs :
        (script[p] = "B" /\ ArgsRead(p))
            => SubstitutionMap(p)[kw_version64] = WithoutLeadingV(args[p][1])

\* C3: a run given fewer arguments than its script reads (six for A, four for B)
\* ends in IndexError before anything is printed, before the template is opened
\* and before the output path is opened: no file is created or truncated.
C3_TooFewArguments ==
    \A p \in procs :
        (Len(args[p]) < (IF script[p] = "A" THEN 6 ELSE 4) /\ pc[p] # "start")
            => /\ pc[p] = "failed" /\ error[p] = "IndexError"
               /\ trace[p] = <<"ArgsIndexError">>
               /\ stdout[p] = <<>>
               /\ touched[p] = {}
               /\ (procs = {p} => files = files0)

\* Reached: such a run has failed with an output path among its arguments, and
\* no file is at that path.
C3_Witness ==
    \E p \in procs :
        /\ pc[p] = "failed" /\ error[p] = "IndexError"
        /\ script[p] = "A" /\ Len(args[p]) = 5
        /\ files[args[p][3]] = NoFile

\* h is arg without the whitespace around it: a slice of arg with only
\* whitespace before and after it, itself neither beginning nor ending in one.
IsStripped(arg, h) ==
    /\ \E i \in 1..Len(arg) + 1 : \E j \in 0..Len(arg) :
          /\ h = SubSeq(arg, i, j)
          /\ \A k \in 1..Len(arg) : (k < i \/ k > j) => arg[k] \in Whitespace
    /\ h # <<>> => (h[1] \notin Whitespace /\ h[Len(h)] \notin Whitespace)

\* C4: what is substituted for a hash placeholder is the hash argument without
\* its leading and trailing whitespace, the characters between kept.
C4_HashesStripped ==
    \A p \in procs :
        ArgsRead(p) =>
            IF script[p] = "A"
            THEN /\ IsStripped(args[p][4], SubstitutionMap(p)[kw_hash_mac])
                 /\ IsStripped(args[p][5], SubstitutionMap(p)[kw_hash_mac_arm])
                 /\ IsStripped(args[p][6], SubstitutionMap(p)[kw_hash_linux])
            ELSE IsStripped(args[p][4], SubstitutionMap(p)[kw_hash_64])

\* Reached: a finished run whose hash arguments had whitespace before, after
\* and inside.
C4_Witness ==
    \E p \in procs :
        /\ pc[p] = "done" /\ script[p] = "A"
        /\ args[p][4] = <<"\n", "a", " ">> /\ hash_mac[p] = <<"a">>
        /\ args[p][5] = <<"\t", "c", " ", "d", "\n">> /\ hash_mac_arm[p] = <<"c", " ", "d">>

\* t holds no recognized placeholder of the script.
NoPlaceholder(t, keys) ==
    \A i \in 1..Len(t) : \A k \in keys : PlaceholderAt(t, i, k) = 0

RECURSIVE Unescaped(_)
\* t with each $$, taken from the left, replaced by one $.
Unescaped(t) ==
    IF Len(t) >= 2 /\ t[1] = "$" /\ t[2] = "$" THEN <<"$">> \o Unescaped(SubSeq(t, 3, Len(t)))
    ELSE IF t = <<>> THEN <<>>
    ELSE <<Head(t)>> \o Unescaped(Tail(t))

\* C5: a template without a recognized placeholder reaches the output file
\* unchanged but for each $$ escape, which becomes a single $.
C5_CopiedThrough ==
    \A p \in procs :
        (procs = {p} /\ pc[p] = "done"
            /\ NoPlaceholder(template[p], DOMAIN SubstitutionMap(p)))
            => files[generated_file_path[p]] = Unescaped(template[p])

\* Reached: such a template, an escape followed by a name, has been written
\* out as a delimiter followed by the name.
C5_Witness ==
    \E p \in procs :
        /\ procs = {p} /\ pc[p] = "done" /\ script[p] = "B"
        /\ template[p] = <<"$", "$">> \o kw_version
        /\ files[generated_file_path[p]] = <<"$">> \o kw_version

\* The steps of a run whose every step succeeds, in the order of the script.
Pipeline ==
    << "ReadArguments", "PrintSummary", "OpenTemplate", "ReadTemplate", "Render",
       "PrintGenerated", "OpenOutput", "WriteOutput" >>
\* The steps that can fail, each with the error that takes its place.
Failures ==
    { <<1, "ArgsIndexError">>, <<3, "TemplateOpenError">>,
      <<4, "TemplateReadError">>, <<7, "OutputOpenError">> }

Took(p, event) == \E i \in 1..Len(trace[p]) : trace[p][i] = event

\* C6: a run is one sequential pipeline.  Its steps so far are an initial part
\* of Pipeline (so each happens at most once, in that order: arguments, summary,
\* template opened, read, rendered, rendered text printed between the two
\* separators, output opened, written), ended at most by the failure of the step
\* that was due; nothing is printed but the summary and then the bracketed
\* rendered text; the output path is touched only after that print; a run is
\* done exactly when it has taken all the steps, and has then left exactly the
\* rendered text in the output file.
C6_Sequential ==
    \A p \in procs :
        LET n == Len(trace[p]) IN
        /\ n <= Len(Pipeline)
        /\ IF pc[p] = "failed"
           THEN /\ n >= 1
                /\ SubSeq(trace[p], 1, n - 1) = SubSeq(Pipeline, 1, n - 1)
                /\ <<n, trace[p][n]>> \in Failures
           ELSE trace[p] = SubSeq(Pipeline, 1, n)
        /\ pc[p] = "done" <=> n = Len(Pipeline)
        /\ stdout[p] = (IF Took(p, "PrintSummary") THEN Summary(p) ELSE <<>>)
                       \o (IF Took(p, "PrintGenerated")
                           THEN <<SeparatorTop, Line("", substitute[p]), SeparatorBottom>>
                           ELSE <<>>)
        /\ Took(p, "Render") =>
              substitute[p] = safe_substitute(template[p], SubstitutionMap(p))
        /\ touched[p] # {} => Took(p, "PrintGenerated")
        /\ (pc[p] = "done" /\ procs = {p}) =>
              files[generated_file_path[p]] = substitute[p]

\* Reached: a run of script A is done, has printed its seven summary lines and
\* the three lines around the rendered text, and has replaced what the output
\* path held by the rendered text.
C6_Witness ==
    \E p \in procs :
        /\ procs = {p} /\ pc[p] = "done" /\ script[p] = "A"
        /\ Len(stdout[p]) = 10 /\ stdout[p][9].value = substitute[p]
        /\ files0[generated_file_path[p]] = Old
        /\ files[generated_file_path[p]] = substitute[p]
        /\ substitute[p] # template[p]

\* p, run alone on the file system as it was, gets through.
AloneSucceeds(p) ==
    /\ Len(args[p]) >= Required(script[p])
    /\ CanOpenRead(files0, unreadable, args[p][2])
    /\ CanDecode(files0[args[p][2]])
    /\ args[p][3] \notin unwritable

\* p has ended as it ends when run alone, its output file holding what it
\* writes when run alone (or what it held before, if p fails alone).
AsAlone(p) ==
    IF AloneSucceeds(p)
    THEN /\ pc[p] = "done"
         /\ files[args[p][3]] = safe_substitute(files0[args[p][2]], SubstitutionMap(p))
    ELSE /\ pc[p] = "failed"
         /\ files[args[p][3]] = files0[args[p][3]]

\* C7 as stated: two invocations with distinct output paths end, under every
\* interleaving, each as it ends alone.
C7_Original ==
    \A p, q \in procs :
        (p # q /\ Ended(p) /\ Ended(q) /\ args[p][3] # args[q][3])
            => AsAlone(p) /\ AsAlone(q)

\* C7 (amended): two invocations with distinct output paths, neither of which
\* is the other's template path, end, under every interleaving, each as it ends
\* alone.
C7_Independent ==
    \A p, q \in procs :
        (p # q /\ Ended(p) /\ Ended(q) /\ args[p][3] # args[q][3]
            /\ args[p][3] # args[q][2] /\ args[q][3] # args[p][2])
            => AsAlone(p) /\ AsAlone(q)

\* Reached: script A and script B have both rendered the same template into
\* different files, each file holding its own script's rendering.
C7_Witness ==
    \E p, q \in procs :
        /\ script[p] = "A" /\ script[q] = "B" /\ pc[p] = "done" /\ pc[q] = "done"
        /\ template_file_path[p] = P1 /\ template_file_path[q] = P1
        /\ generated_file_path[p] = P2 /\ generated_file_path[q] = P3
        /\ files[P2] = substitute[p] /\ files[P3] = substitute[q]
        /\ substitute[p] # substitute[q]
        /\ files[P2] # files0[P2] /\ files[P3] # files0[P3]

\* C8: when a script has run and is then run again with the same arguments on
\* the same template contents, the second run renders the same text and leaves
\* the output file as the first run left it.
C8_Idempotent ==
    \A p, q \in procs :
        (p # q /\ p \in after[q] /\ pc[p] = "done" /\ pc[q] = "done"
            /\ script[p] = script[q] /\ args[p] = args[q]
            /\ template[p] = template[q])
            => /\ substitute[q] = substitute[p]
               /\ files[generated_file_path[q]] = left[p]

\* Reached: the second of two such runs is done; the output path held an older
\* manifest before the first.
C8_Witness ==
    \E p, q \in procs :
        /\ p # q /\ p \in after[q] /\ pc[p] = "done" /\ pc[q] = "done"
        /\ script[p] = script[q] /\ args[p] = args[q] /\ template[p] = template[q]
        /\ files0[generated_file_path[q]] = Old
        /\ substitute[q] # template[q]
        /\ files[generated_file_path[q]] = substitute[q]

\* Every order in which the keys of keys can be taken.
Orders(keys) ==
    { o \in [1..Cardinality(keys) -> keys] :
        \A i, j \in 1..Cardinality(keys) : o[i] = o[j] => i = j }

RECURSIVE KeyByKey(_, _, _)
\* t with the placeholders replaced one key at a time, in the given order: each
\* pass replaces every occurrence of the placeholders of one key in the text the
\* passes before it have left.
KeyByKey(t, m, order) ==
    IF order = <<>> THEN t
    ELSE KeyByKey(Replaced(t, 1, Head(order) :> m[Head(order)]), m, Tail(order))

\* C9 as stated: for every template and all argument values, replacing the
\* placeholders key by key, in any order of the keys, gives what the script's
\* render step gives.
C9_Original ==
    \A p \in procs :
        pc[p] = "rendered" =>
            \A o \in Orders(DOMAIN SubstitutionMap(p)) :
                KeyByKey(template[p], SubstitutionMap(p), o) = substitute[p]

\* A well-formed braced placeholder ${name}, of whatever name, begins at i.
BracedAt(t, i) ==
    \E n \in 1..Len(t) :
        /\ i + n + 2 <= Len(t)
        /\ t[i] = "$" /\ t[i + 1] = "{" /\ t[i + n + 2] = "}"
        /\ t[i + 2] \in IdStart
        /\ \A k \in i + 2..i + n + 1 : t[k] \in IdChar

\* A bare placeholder $name, of whatever name, begins at i, and what follows the
\* name is the end of the text or a character that is neither part of a name
\* nor a delimiter.
BareAt(t, i) ==
    \E n \in 1..Len(t) :
        /\ i + n <= Len(t)
        /\ t[i] = "$" /\ t[i + 1] \in IdStart
        /\ \A k \in i + 1..i + n : t[k] \in IdChar
        /\ i + n < Len(t) => t[i + n + 1] \notin IdChar \cup {"$"}

\* Every delimiter of t begins a placeholder, and no bare placeholder runs into
\* the next delimiter.
WellFormed(t) == \A i \in 1..Len(t) : t[i] = "$" => BracedAt(t, i) \/ BareAt(t, i)

NoDelimiter(v) == \A i \in 1..Len(v) : v[i] # "$"

\* C9 (amended): for every template in which each delimiter begins a well-formed
\* placeholder ($name or ${name}, the name known or not) and no $name is directly
\* followed by another delimiter, and for argument values that hold no delimiter,
\* replacing the placeholders key by key, in any order of the keys, gives what
\* the script's render step gives; placeholders of unknown name stay as they are.
C9_KeyByKey ==
    \A p \in procs :
        (pc[p] = "rendered"
            /\ (\A k \in DOMAIN SubstitutionMap(p) : NoDelimiter(SubstitutionMap(p)[k]))
            /\ WellFormed(template[p]))
            => \A o \in Orders(DOMAIN SubstitutionMap(p)) :
                   KeyByKey(template[p], SubstitutionMap(p), o) = substitute[p]

\* Reached: a rendered template of script A that held a braced and a bare
\* placeholder of different keys.
C9_Witness ==
    \E p \in procs :
        /\ pc[p] = "rendered" /\ script[p] = "A"
        /\ template[p] = <<"$", "{">> \o kw_version \o <<"}", "$">> \o kw_hash_mac
        /\ args[p][1] = V10
        /\ substitute[p] = V10 \o AB

====
